---- MODULE Spec2Model ----
(***************************************************************************)
(* The global logger slot of the log facade (src/lib.rs), refcounted       *)
(* (non-freestanding) build: set_logger, the atexit shutdown routine, the  *)
(* logger() guard and the two hidden entry points __enabled and __log.     *)
(*                                                                         *)
(* Every atomic access of the source (all SeqCst) is one step.  A thread   *)
(* is at "idle" between calls; the shutdown routine runs on the exiting    *)
(* thread while the other threads keep running.                            *)
(*                                                                         *)
(* The two level scales LogLevel and LogLevelFilter (comparison, parsing,  *)
(* Display, conversions) are functions of their arguments alone; SpecLevel *)
(* applies them to every value and to a set of texts.  SpecFilter is the   *)
(* maximum level filter with its token.                                    *)
(***************************************************************************)
EXTENDS Integers, FiniteSets, Sequences, TLC

\* ---- bounds of the model ------------------------------------------------
NThreads == 2
MaxCalls == 3
UsizeModulus == 8

Threads == 1..NThreads

\* ---- program constants --------------------------------------------------
UNINITIALIZED == 0
INITIALIZING == 1

\* enum LogLevelFilter, #[repr(usize)]: the discriminants
Off == 0
Error == 1
Warn == 2
Info == 3
Debug == 4
Trace == 5
LogLevelFilter == {Off, Error, Warn, Info, Debug, Trace}

\* ---- the two level scales --------------------------------------------------
\* enum LogLevel { Error = 1, Warn, Info, Debug, Trace } and
\* enum LogLevelFilter { Off, Error, Warn, Info, Debug, Trace }, both
\* #[repr(usize)]: the variants in the order of their declaration.  A variant
\* without an explicit discriminant has the one before it plus 1, and the
\* first variant of LogLevelFilter has the discriminant of Off.
LogLevelVariants == <<"Error", "Warn", "Info", "Debug", "Trace">>
LogLevelFilterVariants == <<"Off", "Error", "Warn", "Info", "Debug", "Trace">>
LogLevelFirst == 1

Range(seq) == {seq[i] : i \in 1..Len(seq)}
IndexOf(seq, v) == CHOOSE i \in 1..Len(seq) : seq[i] = v
LogLevels == Range(LogLevelVariants)
Filters == Range(LogLevelFilterVariants)

\* `*self as usize`
LogLevel_as_usize_FromZero(l) == IndexOf(LogLevelVariants, l) - 1
LogLevel_as_usize(l) == LogLevelFirst + (IndexOf(LogLevelVariants, l) - 1)
LogLevelFilter_as_usize_FromOne(f) == IndexOf(LogLevelFilterVariants, f)
LogLevelFilter_as_usize(f) == Off + (IndexOf(LogLevelFilterVariants, f) - 1)

\* mem::transmute::<usize, LogLevelFilter>: the variant with that discriminant;
\* a usize that is no discriminant makes an invalid value
TransmuteFilter(u) ==
    IF \E f \in Filters : LogLevelFilter_as_usize(f) = u
    THEN CHOOSE f \in Filters : LogLevelFilter_as_usize(f) = u
    ELSE "invalid"

\* Option, Result, and a panic of unwrap() or of an index out of bounds
None == <<"None">>
Some(v) == <<"Some", v>>
Err == <<"Err">>
Ok(v) == <<"Ok", v>>
Panic == "panic"
PanicResult == <<"panic">>

\* LogLevel::from_usize, LogLevelFilter::from_usize
LogLevel_from_usize(u) ==
    CASE u = 1 -> Some("Error")
      [] u = 2 -> Some("Warn")
      [] u = 3 -> Some("Info")
      [] u = 4 -> Some("Debug")
      [] u = 5 -> Some("Trace")
      [] OTHER -> None

LogLevelFilter_from_usize(u) ==
    CASE u = 0 -> Some("Off")
      [] u = 1 -> Some("Error")
      [] u = 2 -> Some("Warn")
      [] u = 3 -> Some("Info")
      [] u = 4 -> Some("Debug")
      [] u = 5 -> Some("Trace")
      [] OTHER -> None

\* usize::cmp and Ordering::reverse
UsizeCmp(a, b) == IF a < b THEN "Less" ELSE IF a = b THEN "Equal" ELSE "Greater"
Reverse_Same(o) == o
Reverse(o) == IF o = "Less" THEN "Greater" ELSE IF o = "Greater" THEN "Less" ELSE o

\* impl PartialEq, PartialEq<LogLevelFilter>, PartialOrd,
\* PartialOrd<LogLevelFilter>, Ord for LogLevel
LogLevel_eq(a, b) == LogLevel_as_usize(a) = LogLevel_as_usize(b)
LogLevel_eq_LogLevelFilter(a, f) == LogLevel_as_usize(a) = LogLevelFilter_as_usize(f)
LogLevel_cmp(a, b) == UsizeCmp(LogLevel_as_usize(a), LogLevel_as_usize(b))
LogLevel_partial_cmp(a, b) == Some(LogLevel_cmp(a, b))
LogLevel_partial_cmp_LogLevelFilter(a, f) ==
    Some(UsizeCmp(LogLevel_as_usize(a), LogLevelFilter_as_usize(f)))

\* impl PartialEq, PartialEq<LogLevel>, PartialOrd, PartialOrd<LogLevel>, Ord
\* for LogLevelFilter
LogLevelFilter_eq(f, g) == LogLevelFilter_as_usize(f) = LogLevelFilter_as_usize(g)
LogLevelFilter_eq_LogLevel(f, a) == LogLevel_eq_LogLevelFilter(a, f)
LogLevelFilter_cmp(f, g) == UsizeCmp(LogLevelFilter_as_usize(f), LogLevelFilter_as_usize(g))
LogLevelFilter_partial_cmp(f, g) == Some(LogLevelFilter_cmp(f, g))
LogLevelFilter_partial_cmp_LogLevel(f, a) ==
    LET r == LogLevel_partial_cmp_LogLevelFilter(a, f)
    IN  IF r = None THEN None ELSE Some(Reverse(r[2]))

\* A value of either scale is written <<type, variant>>.
LogLevelValues == {<<"LogLevel", l>> : l \in LogLevels}
LogLevelFilterValues == {<<"LogLevelFilter", f>> : f \in Filters}
Values == LogLevelValues \cup LogLevelFilterValues

\* x == y and x.partial_cmp(&y): the impl the two types select
Eq(x, y) ==
    IF x[1] = "LogLevel"
    THEN IF y[1] = "LogLevel" THEN LogLevel_eq(x[2], y[2])
                              ELSE LogLevel_eq_LogLevelFilter(x[2], y[2])
    ELSE IF y[1] = "LogLevel" THEN LogLevelFilter_eq_LogLevel(x[2], y[2])
                              ELSE LogLevelFilter_eq(x[2], y[2])

PartialCmp(x, y) ==
    IF x[1] = "LogLevel"
    THEN IF y[1] = "LogLevel" THEN LogLevel_partial_cmp(x[2], y[2])
                              ELSE LogLevel_partial_cmp_LogLevelFilter(x[2], y[2])
    ELSE IF y[1] = "LogLevel" THEN LogLevelFilter_partial_cmp_LogLevel(x[2], y[2])
                              ELSE LogLevelFilter_partial_cmp(x[2], y[2])

\* x < y and x <= y, as PartialOrd derives them from partial_cmp
Lt(x, y) == PartialCmp(x, y) = Some("Less")
Le(x, y) == PartialCmp(x, y) \in {Some("Less"), Some("Equal")}

\* LogLevel::to_log_level_filter, LogLevelFilter::to_log_level
Unwrap(o) == IF o = None THEN Panic ELSE o[2]
to_log_level_filter(l) == Unwrap(LogLevelFilter_from_usize(LogLevel_as_usize(l)))
to_log_level_Some(f) == Some(f)
to_log_level(f) == LogLevel_from_usize(LogLevelFilter_as_usize(f))

\* ---- names, parsing and Display ---------------------------------------------
\* A &str is the sequence of its characters.
LOG_LEVEL_NAMES ==
    << <<"O", "F", "F">>, <<"E", "R", "R", "O", "R">>, <<"W", "A", "R", "N">>,
       <<"I", "N", "F", "O">>, <<"D", "E", "B", "U", "G">>, <<"T", "R", "A", "C", "E">> >>

UpperCase == <<"A", "B", "C", "D", "E", "F", "G", "H", "I", "J", "K", "L", "M",
               "N", "O", "P", "Q", "R", "S", "T", "U", "V", "W", "X", "Y", "Z">>
LowerCase == <<"a", "b", "c", "d", "e", "f", "g", "h", "i", "j", "k", "l", "m",
               "n", "o", "p", "q", "r", "s", "t", "u", "v", "w", "x", "y", "z">>

\* u8::to_ascii_lowercase and str::eq_ignore_ascii_case
to_ascii_lowercase(c) ==
    IF c \in Range(UpperCase) THEN LowerCase[IndexOf(UpperCase, c)] ELSE c
eq_ignore_ascii_case(a, b) ==
    /\ Len(a) = Len(b)
    /\ \A i \in 1..Len(a) : to_ascii_lowercase(a[i]) = to_ascii_lowercase(b[i])

\* the closure given to position(): eq_ignore_ascii_case in the normal build,
\* == in the freestanding build
Builds == {"normal", "freestanding"}
NameMatches_Exact(build, name, text) == name = text
NameMatches_IgnoreCase(build, name, text) == eq_ignore_ascii_case(name, text)
NameMatches(build, name, text) ==
    IF build = "freestanding" THEN name = text ELSE eq_ignore_ascii_case(name, text)

\* LOG_LEVEL_NAMES.iter().position(..): the index, from 0, of the first match
Position(build, text) ==
    LET hits == {i \in 1..Len(LOG_LEVEL_NAMES) : NameMatches(build, LOG_LEVEL_NAMES[i], text)}
    IN  IF hits = {} THEN None
        ELSE Some((CHOOSE i \in hits : \A j \in hits : i <= j) - 1)

\* <LogLevel as FromStr>::from_str: .filter(|&idx| idx != 0), then
\* LogLevel::from_usize(idx).unwrap()
LogLevel_from_str(build, text) ==
    LET p == Position(build, text)
    IN  IF p = None \/ p[2] = 0 THEN Err
        ELSE IF LogLevel_from_usize(p[2]) = None THEN PanicResult
        ELSE Ok(LogLevel_from_usize(p[2])[2])

\* <LogLevelFilter as FromStr>::from_str
LogLevelFilter_from_str(build, text) ==
    LET p == Position(build, text)
    IN  IF p = None THEN Err
        ELSE IF LogLevelFilter_from_usize(p[2]) = None THEN PanicResult
        ELSE Ok(LogLevelFilter_from_usize(p[2])[2])

FromStr(ty, build, text) ==
    IF ty = "LogLevel" THEN LogLevel_from_str(build, text)
                       ELSE LogLevelFilter_from_str(build, text)

\* A Formatter carries the width and the precision of the format
\* specification; "{}" has neither.
DefaultFormat == [width |-> None, precision |-> None]
Formats == {DefaultFormat, [width |-> Some(6), precision |-> None],
            [width |-> None, precision |-> Some(2)]}

\* Formatter::pad: the text cut to the precision, then filled with spaces on
\* the right up to the width
Spaces(n) == [i \in 1..n |-> " "]
Pad(text, fmt) ==
    LET cut == IF fmt.precision = None \/ Len(text) <= fmt.precision[2]
               THEN text ELSE SubSeq(text, 1, fmt.precision[2])
    IN  IF fmt.width = None \/ Len(cut) >= fmt.width[2]
        THEN cut ELSE cut \o Spaces(fmt.width[2] - Len(cut))

\* LOG_LEVEL_NAMES[*self as usize]
NameAt(u) == IF u + 1 \in 1..Len(LOG_LEVEL_NAMES) THEN LOG_LEVEL_NAMES[u + 1] ELSE PanicResult

\* <LogLevel as Display>::fmt: fmt.pad(name);
\* <LogLevelFilter as Display>::fmt: write!(fmt, "{}", name)
LogLevel_fmt(l, fmt) ==
    LET name == NameAt(LogLevel_as_usize(l))
    IN  IF name = PanicResult THEN PanicResult ELSE Pad(name, fmt)
LogLevelFilter_fmt(f, fmt) ==
    LET name == NameAt(LogLevelFilter_as_usize(f))
    IN  IF name = PanicResult THEN PanicResult ELSE Pad(name, DefaultFormat)

Display(x, fmt) ==
    IF x[1] = "LogLevel" THEN LogLevel_fmt(x[2], fmt) ELSE LogLevelFilter_fmt(x[2], fmt)

\* ToString::to_string
to_string(x) == Display(x, DefaultFormat)

\* the texts given to from_str: every mix of upper and lower case of the six
\* names, and texts that are no name
RECURSIVE Spellings(_)
Spellings(name) ==
    IF name = <<>> THEN {<<>>}
    ELSE {<<c>> \o rest : c \in {name[1], to_ascii_lowercase(name[1])},
                         rest \in Spellings(Tail(name))}
OtherTexts ==
    { <<>>, <<"a", "s", "d", "f">>, <<"o", "f">>, <<"O", "F", "F", "F">>,
      <<"w", "a", "r", "n", "i", "n", "g">>, <<" ", "i", "n", "f", "o">>,
      <<"e", "r", "r">>, <<"T", "R", "A", "C", "E", " ">> }
Texts == UNION {Spellings(LOG_LEVEL_NAMES[i]) : i \in 1..Len(LOG_LEVEL_NAMES)} \cup OtherTexts

\* the filters the holder of the token passes to MaxLogLevelFilter::set
SetInputs == {"Off", "Info"}

\* The address of the Box<Box<Log>> made by thread t's make_logger: a valid
\* pointer, so neither of the two sentinels.
BoxBase == 2
BoxAddr(t) == BoxBase + (t - 1)
Boxes == {BoxAddr(t) : t \in Threads}

Ops == {"set_logger", "enabled", "log"}

\* the levels passed to log calls; NoLevel stands for "not in a log call"
NoLevel == "none"
LevelInputs == {"Warn", "Trace"}
LevelsOf(o) == IF o = "log" THEN LevelInputs ELSE {NoLevel}

VARIABLES
    LOGGER,                \* static LOGGER: AtomicUsize
    REFCOUNT,              \* static REFCOUNT: AtomicUsize
    MAX_LOG_LEVEL_FILTER,  \* static MAX_LOG_LEVEL_FILTER: AtomicUsize
    pc,                    \* position of each thread in its current call
    op,                    \* the call each thread is in ("none" when idle)
    guard,                 \* the value each thread loaded from LOGGER
    ret,                   \* what each thread's last call returned
    calls,                 \* calls started so far, by all threads
    level,                 \* the level argument of the log call a thread is in
    seen,                  \* the content of MAX_LOG_LEVEL_FILTER that call read
    sd,                    \* position of the shutdown routine
    sdLogger,              \* `logger` local of shutdown
    atexit,                \* shutdown routines registered with libc::atexit
    ran,                   \* shutdown routines that have run to completion
    heap,                  \* state of each Box: "unalloc", "live", "freed"
    token,                 \* MaxLogLevelFilter tokens created
    \* history
    winner,                \* thread whose compare_and_swap succeeded (0: none)
    okCount, errCount,     \* set_logger calls returned Ok / Err
    made,                  \* factory invocations per thread
    phase,                 \* lifecycle of the slot
    activations,           \* stores of a handle into LOGGER
    releases,              \* drops of the Box by shutdown
    zeroSeen,              \* shutdown left its loop on REFCOUNT = 0
    ub,                    \* a sentinel or freed Box was dereferenced / freed
    afterOk,               \* the thread's set_logger began after an Ok return
    beforeSwap,            \* the thread's call began before shutdown's swap
    counted,               \* "in": the thread's call had incremented REFCOUNT at the
                           \* swap and not yet decremented it; "out": it has since
    lateErr,               \* a set_logger call failed on a slot shutdown had swapped
    lastSet,               \* the argument of the latest MaxLogLevelFilter::set
    got,                   \* what max_log_level() returned, called since then
    \* the level scales on their own
    input,                 \* the arguments of a call of one of their functions
    applied,               \* the function that was called
    output,                \* what it returned
    \* what reaches the recorder
    passed,                \* target, location and message given to each thread's call
    invoked                \* the recorder's methods the call has invoked, with
                           \* what each was given and what enabled answered

vars == <<LOGGER, REFCOUNT, MAX_LOG_LEVEL_FILTER, pc, op, guard, ret, calls,
          level, seen,
          sd, sdLogger, atexit, ran, heap, token, winner, okCount,
          errCount, made, phase, activations, releases, zeroSeen, ub,
          afterOk, beforeSwap, counted, lateErr, lastSet, got,
          input, applied, output, passed, invoked>>

shared == <<LOGGER, REFCOUNT, MAX_LOG_LEVEL_FILTER>>
exitState == <<sd, sdLogger, atexit, ran>>
args == <<level, seen>>
filter == <<lastSet, got>>
pure == <<input, applied, output>>
delivery == <<passed, invoked>>
history == <<winner, okCount, errCount, made, phase, activations, releases,
             zeroSeen, afterOk, beforeSwap, counted, lateErr>>
program == <<shared, pc, op, guard, ret, calls, args, exitState, heap, token,
             history, ub, filter, delivery>>

\* ---- atomics ------------------------------------------------------------
\* AtomicUsize::compare_and_swap: the new value of the cell
CompareAndSwap_Store(cur, old, new) == new
CompareAndSwap(cur, old, new) == IF cur = old THEN new ELSE cur

\* set_logger: the value compare_and_swap returned (the previous one) is
\* UNINITIALIZED, so the call goes on; otherwise it returns Err
CasWins_Sentinels(prev) == prev = UNINITIALIZED \/ prev = INITIALIZING
CasWins_Always(prev) == TRUE
CasWins(prev) == prev = UNINITIALIZED

\* set_logger: libc::atexit(shutdown) adds one registration
AtexitRegister_Twice(n) == n + 2
AtexitRegister(n) == n + 1

\* shutdown: the value swapped into LOGGER
ShutdownSentinel_Uninitialized == UNINITIALIZED
ShutdownSentinel == INITIALIZING

\* AtomicUsize::fetch_add(1) / fetch_sub(1): wrapping
FetchAdd_Skipped(v) == v
FetchAdd(v) == (v + 1) % UsizeModulus
FetchSub_Skipped(v) == v
FetchSub(v) == (v - 1) % UsizeModulus

\* logger(): `logger == UNINITIALIZED || logger == INITIALIZING`
IsUnavailable_OnlyUninitialized(logger) == logger = UNINITIALIZED
IsUnavailable_OnlyInitializing(logger) == logger = INITIALIZING
IsUnavailable(logger) == logger = UNINITIALIZED \/ logger = INITIALIZING

\* shutdown(): the loop `while REFCOUNT.load() != 0` is left
DrainDone_NoWait(rc) == TRUE
DrainDone(rc) == rc = 0

Live(h) == h \in Boxes /\ heap[h] = "live"

\* max_log_level(): the content of MAX_LOG_LEVEL_FILTER transmuted to a
\* LogLevelFilter
max_log_level_Max == "Trace"
max_log_level == TransmuteFilter(MAX_LOG_LEVEL_FILTER)

\* The call site of a log call (the macro layer): the call goes on to __log
\* only if `lvl <= max_log_level()`.
SiteEnabled(lvl, max) == Le(<<"LogLevel", lvl>>, <<"LogLevelFilter", max>>)

\* where a call of o at level l starts: a log call above the filter ends at
\* its call site
FirstPc(o, l) ==
    IF o = "set_logger" THEN "cas"
    ELSE IF o = "log" /\ ~SiteEnabled(l, max_log_level) THEN "idle"
    ELSE "inc"

Swapped == phase = "Draining"

\* the arguments of a call of a function of the two scales, "none" where the
\* function has no such argument
NoValue == <<"none", "none">>
NoInput == [kind |-> "none", a |-> NoValue, b |-> NoValue, text |-> <<>>, fmt |-> DefaultFormat]
PairInputs ==
    {[kind |-> "pair", a |-> x, b |-> y, text |-> <<>>, fmt |-> DefaultFormat] :
        x \in Values, y \in Values}
ValueInputs ==
    {[kind |-> "value", a |-> x, b |-> NoValue, text |-> <<>>, fmt |-> f] :
        x \in Values, f \in Formats}
TextInputs ==
    {[kind |-> "text", a |-> NoValue, b |-> NoValue, text |-> s, fmt |-> DefaultFormat] :
        s \in Texts}
Inputs == PairInputs \cup ValueInputs \cup TextInputs

\* `applied` is <<function, type, build>>, "-" where there is no choice
NotApplied == <<"none", "-", "-">>

\* target, location and message of an __enabled or __log call ("-" where
\* __enabled has none), and the ones the calls are made with
NoArguments == [target |-> "-", location |-> "-", message |-> "-"]
ArgumentInputs ==
    {[target |-> "app", location |-> "main.rs:1", message |-> "starting"],
     [target |-> "net", location |-> "net.rs:7", message |-> "verbose"]}
\* each level is logged from one place
ArgumentsAt(l) == {a \in ArgumentInputs : (l = "Trace") = (a.target = "net")}

\* the statics as the program starts with them; no call has begun
InitProgram ==
    /\ LOGGER = UNINITIALIZED
    /\ REFCOUNT = 0
    /\ MAX_LOG_LEVEL_FILTER = Off
    /\ pc = [t \in Threads |-> "idle"]
    /\ op = [t \in Threads |-> "none"]
    /\ guard = [t \in Threads |-> 0]
    /\ ret = [t \in Threads |-> "none"]
    /\ calls = 0
    /\ level = [t \in Threads |-> NoLevel]
    /\ seen = [t \in Threads |-> Off]
    /\ sd = "idle"
    /\ sdLogger = 0
    /\ atexit = 0
    /\ ran = 0
    /\ heap = [h \in Boxes |-> "unalloc"]
    /\ token = 0
    /\ winner = 0
    /\ okCount = 0
    /\ errCount = 0
    /\ made = [t \in Threads |-> 0]
    /\ phase = "Uninitialized"
    /\ activations = 0
    /\ releases = 0
    /\ zeroSeen = FALSE
    /\ ub = FALSE
    /\ afterOk = [t \in Threads |-> FALSE]
    /\ beforeSwap = [t \in Threads |-> FALSE]
    /\ counted = [t \in Threads |-> "no"]
    /\ lateErr = FALSE
    /\ lastSet = "none"
    /\ got = "none"
    /\ passed = [t \in Threads |-> NoArguments]
    /\ invoked = [t \in Threads |-> <<>>]

Init ==
    /\ InitProgram
    /\ input = NoInput
    /\ applied = NotApplied
    /\ output = <<"none">>

\* ---- a thread enters set_logger, __enabled or __log ------------------------
\* thread t calls o, a log call at level l
begin(t, o, l) ==
    /\ pc[t] = "idle"
    /\ calls < MaxCalls
    /\ LET first == FirstPc(o, l)
       IN  /\ pc' = [pc EXCEPT ![t] = first]
           /\ IF first = "idle"
              THEN /\ ret' = [ret EXCEPT ![t] = "skipped"]
                   /\ UNCHANGED <<op, level, seen, afterOk, beforeSwap>>
              ELSE /\ ret' = [ret EXCEPT ![t] = "none"]
                   /\ op' = [op EXCEPT ![t] = o]
                   /\ level' = [level EXCEPT ![t] = l]
                   /\ seen' = [seen EXCEPT ![t] =
                                  IF o = "log" THEN MAX_LOG_LEVEL_FILTER ELSE Off]
                   /\ afterOk' = [afterOk EXCEPT ![t] = okCount > 0]
                   /\ beforeSwap' = [beforeSwap EXCEPT ![t] = ~Swapped]
    /\ calls' = calls + 1
    /\ guard' = [guard EXCEPT ![t] = 0]
    /\ UNCHANGED <<shared, exitState, heap, token, winner, okCount, errCount,
                   made, phase, activations, releases, zeroSeen, ub, counted, lateErr,
                   filter, pure, delivery>>

call_begin(t) == \E o \in Ops : \E l \in LevelsOf(o) : begin(t, o, l)

\* ---- set_logger ---------------------------------------------------------
\* LOGGER.compare_and_swap(UNINITIALIZED, INITIALIZING) != UNINITIALIZED
\*    => return Err(SetLoggerError(()))
set_logger_cas(t) ==
    /\ pc[t] = "cas"
    /\ LOGGER' = CompareAndSwap(LOGGER, UNINITIALIZED, INITIALIZING)
    /\ IF CasWins(LOGGER)
       THEN /\ pc' = [pc EXCEPT ![t] = "make"]
            /\ winner' = t
            /\ phase' = "Initializing"
            /\ UNCHANGED <<op, ret, errCount, afterOk, beforeSwap, lateErr>>
       ELSE /\ pc' = [pc EXCEPT ![t] = "idle"]
            /\ op' = [op EXCEPT ![t] = "none"]
            /\ ret' = [ret EXCEPT ![t] = "Err"]
            /\ errCount' = errCount + 1
            /\ lateErr' = (lateErr \/ Swapped)
            /\ afterOk' = [afterOk EXCEPT ![t] = FALSE]
            /\ beforeSwap' = [beforeSwap EXCEPT ![t] = FALSE]
            /\ UNCHANGED <<winner, phase>>
    /\ UNCHANGED <<REFCOUNT, MAX_LOG_LEVEL_FILTER, guard, calls, exitState, heap,
                   token, okCount, made, activations, releases, zeroSeen,
                   ub, counted>>
    /\ UNCHANGED <<args, filter, pure, delivery>>

\* let logger = Box::new(make_logger(MaxLogLevelFilter(())))
set_logger_make(t) ==
    /\ pc[t] = "make"
    /\ pc' = [pc EXCEPT ![t] = "store"]
    /\ token' = token + 1
    /\ made' = [made EXCEPT ![t] = @ + 1]
    /\ heap' = [heap EXCEPT ![BoxAddr(t)] = "live"]
    /\ UNCHANGED <<shared, op, guard, ret, calls, exitState, winner, okCount,
                   errCount, phase, activations, releases, zeroSeen, ub, afterOk,
                   beforeSwap, counted, lateErr>>
    /\ UNCHANGED <<args, filter, pure, delivery>>

\* LOGGER.store(logger)
set_logger_store(t) ==
    /\ pc[t] = "store"
    /\ LOGGER' = BoxAddr(t)
    /\ pc' = [pc EXCEPT ![t] = "atexit"]
    /\ phase' = "Active"
    /\ activations' = activations + 1
    /\ UNCHANGED <<REFCOUNT, MAX_LOG_LEVEL_FILTER, op, guard, ret, calls, exitState,
                   heap, token, winner, okCount, errCount, made, releases,
                   zeroSeen, ub, afterOk, beforeSwap, counted, lateErr>>
    /\ UNCHANGED <<args, filter, pure, delivery>>

\* assert_eq!(libc::atexit(shutdown), 0); return Ok(())
set_logger_atexit(t) ==
    /\ pc[t] = "atexit"
    /\ atexit' = AtexitRegister(atexit)
    /\ pc' = [pc EXCEPT ![t] = "idle"]
    /\ op' = [op EXCEPT ![t] = "none"]
    /\ ret' = [ret EXCEPT ![t] = "Ok"]
    /\ okCount' = okCount + 1
    /\ afterOk' = [afterOk EXCEPT ![t] = FALSE]
    /\ beforeSwap' = [beforeSwap EXCEPT ![t] = FALSE]
    /\ UNCHANGED <<shared, guard, calls, sd, sdLogger, ran, heap, token,
                   winner, errCount, made, phase, activations, releases, zeroSeen,
                   ub, counted, lateErr>>
    /\ UNCHANGED <<args, filter, pure, delivery>>

\* ---- MaxLogLevelFilter::set, by whoever holds the token --------------------
\* MAX_LOG_LEVEL_FILTER.store(level as usize)
MaxLogLevelFilter_set(f) ==
    /\ token > 0
    /\ MAX_LOG_LEVEL_FILTER' = LogLevelFilter_as_usize(f)
    /\ lastSet' = f
    /\ got' = "none"
    /\ UNCHANGED <<LOGGER, REFCOUNT, pc, op, guard, ret, calls, exitState, heap,
                   token, history, ub>>
    /\ UNCHANGED <<args, pure, delivery>>

token_set == \E f \in SetInputs : MaxLogLevelFilter_set(f)

\* max_log_level(), which anyone may call, and MaxLogLevelFilter::get, which
\* calls it for the holder of the token
max_log_level_call ==
    /\ got' = max_log_level
    /\ UNCHANGED <<shared, pc, op, guard, ret, calls, exitState, heap, token,
                   history, ub, args, lastSet, pure, delivery>>

MaxLogLevelFilter_get ==
    /\ token > 0
    /\ max_log_level_call

\* ---- logger(), __enabled, __log -------------------------------------------
\* REFCOUNT.fetch_add(1)
logger_fetch_add(t) ==
    /\ pc[t] = "inc"
    /\ REFCOUNT' = FetchAdd(REFCOUNT)
    /\ pc' = [pc EXCEPT ![t] = "load"]
    /\ UNCHANGED <<LOGGER, MAX_LOG_LEVEL_FILTER, op, guard, ret, calls, exitState,
                   heap, token, history, ub>>
    /\ UNCHANGED <<args, filter, pure, delivery>>

\* let logger = LOGGER.load(); the branch on the two sentinels
logger_load_Wait(t) ==
    /\ pc[t] = "load"
    /\ LOGGER # INITIALIZING
    /\ guard' = [guard EXCEPT ![t] = LOGGER]
    /\ pc' = [pc EXCEPT ![t] = IF IsUnavailable(LOGGER) THEN "none" ELSE "some"]
    /\ UNCHANGED <<shared, op, ret, calls, exitState, heap, token, history, ub>>
    /\ UNCHANGED <<args, filter, pure, delivery>>

logger_load(t) ==
    /\ pc[t] = "load"
    /\ guard' = [guard EXCEPT ![t] = LOGGER]
    /\ pc' = [pc EXCEPT ![t] = IF IsUnavailable(LOGGER) THEN "none" ELSE "some"]
    /\ UNCHANGED <<shared, op, ret, calls, exitState, heap, token, history, ub>>
    /\ UNCHANGED <<args, filter, pure, delivery>>

\* REFCOUNT.fetch_sub(1); None  => __enabled returns false, __log returns
logger_none(t) ==
    /\ pc[t] = "none"
    /\ REFCOUNT' = FetchSub(REFCOUNT)
    /\ pc' = [pc EXCEPT ![t] = "idle"]
    /\ ret' = [ret EXCEPT ![t] = IF op[t] = "enabled" THEN "false" ELSE "unit"]
    /\ op' = [op EXCEPT ![t] = "none"]
    /\ level' = [level EXCEPT ![t] = NoLevel]
    /\ seen' = [seen EXCEPT ![t] = Off]
    /\ counted' = [counted EXCEPT ![t] = IF @ = "in" THEN "out" ELSE @]
    /\ guard' = [guard EXCEPT ![t] = 0]
    /\ afterOk' = [afterOk EXCEPT ![t] = FALSE]
    /\ beforeSwap' = [beforeSwap EXCEPT ![t] = FALSE]
    /\ UNCHANGED <<LOGGER, MAX_LOG_LEVEL_FILTER, calls, exitState, heap,
                   token, winner, okCount, errCount, made, phase,
                   activations, releases, zeroSeen, ub, lateErr, filter, pure, delivery>>

\* Some(LoggerGuard(logger)) => logger.enabled(..) / logger.log(..) is entered
\* through the guard's deref; a guard that is no live Box is undefined behaviour
recorder_call(t) ==
    /\ pc[t] = "some"
    /\ pc' = [pc EXCEPT ![t] = "running"]
    /\ ub' = (ub \/ ~Live(guard[t]))
    /\ UNCHANGED <<shared, op, guard, ret, calls, exitState, heap, token,
                   history>>
    /\ UNCHANGED <<args, filter, pure, delivery>>

\* the recorder's method returns; the guard is dropped: REFCOUNT.fetch_sub(1)
guard_drop(t) ==
    /\ pc[t] = "running"
    /\ REFCOUNT' = FetchSub(REFCOUNT)
    /\ pc' = [pc EXCEPT ![t] = "idle"]
    /\ \E b \in {"true", "false"} :
         ret' = [ret EXCEPT ![t] = IF op[t] = "enabled" THEN b ELSE "unit"]
    /\ op' = [op EXCEPT ![t] = "none"]
    /\ level' = [level EXCEPT ![t] = NoLevel]
    /\ seen' = [seen EXCEPT ![t] = Off]
    /\ counted' = [counted EXCEPT ![t] = IF @ = "in" THEN "out" ELSE @]
    /\ guard' = [guard EXCEPT ![t] = 0]
    /\ afterOk' = [afterOk EXCEPT ![t] = FALSE]
    /\ beforeSwap' = [beforeSwap EXCEPT ![t] = FALSE]
    /\ UNCHANGED <<LOGGER, MAX_LOG_LEVEL_FILTER, calls, exitState, heap,
                   token, winner, okCount, errCount, made, phase,
                   activations, releases, zeroSeen, ub, lateErr, filter, pure, delivery>>

\* ---- shutdown, run by libc at process exit --------------------------------
\* let logger = LOGGER.swap(INITIALIZING)
shutdown_swap ==
    /\ sd = "idle"
    /\ ran < atexit
    /\ sdLogger' = LOGGER
    /\ LOGGER' = ShutdownSentinel
    /\ sd' = "spin"
    /\ phase' = "Draining"
    /\ counted' = [t \in Threads |->
                     IF pc[t] \in {"load", "none", "some", "running"} THEN "in" ELSE "no"]
    /\ UNCHANGED <<REFCOUNT, MAX_LOG_LEVEL_FILTER, pc, op, guard, ret, calls, atexit,
                   ran, heap, token, winner, okCount, errCount, made,
                   activations, releases, zeroSeen, ub, afterOk, beforeSwap, lateErr>>
    /\ UNCHANGED <<args, filter, pure, delivery>>

\* while REFCOUNT.load() != 0 { }   -- one more turn of the loop
shutdown_spin ==
    /\ sd = "spin"
    /\ ~DrainDone(REFCOUNT)
    /\ UNCHANGED vars

\* the loop is left
shutdown_drained ==
    /\ sd = "spin"
    /\ DrainDone(REFCOUNT)
    /\ sd' = "free"
    /\ zeroSeen' = (REFCOUNT = 0)
    /\ UNCHANGED <<shared, pc, op, guard, ret, calls, sdLogger, atexit, ran, heap,
                   token, winner, okCount, errCount, made, phase,
                   activations, releases, ub, afterOk, beforeSwap, counted, lateErr>>
    /\ UNCHANGED <<args, filter, pure, delivery>>

\* mem::transmute::<usize, Box<Box<Log>>>(logger);  -- the Box is dropped
shutdown_release ==
    /\ sd = "free"
    /\ sd' = "idle"
    /\ ran' = ran + 1
    /\ releases' = releases + 1
    /\ ub' = (ub \/ ~Live(sdLogger)
                \/ \E t \in Threads : pc[t] \in {"some", "running"} /\ guard[t] = sdLogger)
    /\ heap' = IF sdLogger \in Boxes THEN [heap EXCEPT ![sdLogger] = "freed"] ELSE heap
    /\ UNCHANGED <<shared, pc, op, guard, ret, calls, sdLogger, atexit, token,
                   winner, okCount, errCount, made, phase, activations, zeroSeen,
                   afterOk, beforeSwap, counted, lateErr>>
    /\ UNCHANGED <<args, filter, pure, delivery>>

Next ==
    \/ \E t \in Threads : call_begin(t)
    \/ \E t \in Threads : set_logger_cas(t)
    \/ \E t \in Threads : set_logger_make(t)
    \/ \E t \in Threads : set_logger_store(t)
    \/ \E t \in Threads : set_logger_atexit(t)
    \/ token_set
    \/ \E t \in Threads : logger_fetch_add(t)
    \/ \E t \in Threads : logger_load(t)
    \/ \E t \in Threads : logger_none(t)
    \/ \E t \in Threads : recorder_call(t)
    \/ \E t \in Threads : guard_drop(t)
    \/ shutdown_swap
    \/ shutdown_spin
    \/ shutdown_drained
    \/ shutdown_release

Spec == Init /\ [][Next]_vars

TypeOK ==
    /\ LOGGER \in {UNINITIALIZED, INITIALIZING} \cup Boxes
    /\ REFCOUNT \in 0..(UsizeModulus - 1)
    /\ MAX_LOG_LEVEL_FILTER \in LogLevelFilter

\* ---- the maximum level filter on its own -----------------------------------
\* set_logger hands out the token; its holder sets any filter
install_begin(t) == begin(t, "set_logger", NoLevel)
filter_set == \E f \in Filters : MaxLogLevelFilter_set(f)

NextFilter ==
    \/ \E t \in Threads : install_begin(t)
    \/ \E t \in Threads : set_logger_cas(t)
    \/ \E t \in Threads : set_logger_make(t)
    \/ \E t \in Threads : set_logger_store(t)
    \/ \E t \in Threads : set_logger_atexit(t)
    \/ filter_set
    \/ MaxLogLevelFilter_get
    \/ max_log_level_call

SpecFilter == Init /\ [][NextFilter]_vars

\* ---- the level scales on their own ---------------------------------------------
\* The functions of LogLevel and LogLevelFilter touch no static: each is
\* applied once to arguments drawn from Inputs.
InitLevel ==
    /\ InitProgram
    /\ input \in Inputs
    /\ applied = NotApplied
    /\ output = <<"none">>

Apply(fn, ty, build, out) ==
    /\ applied = NotApplied
    /\ applied' = <<fn, ty, build>>
    /\ output' = out
    /\ UNCHANGED <<program, input>>

\* a == b
apply_eq ==
    /\ input.kind = "pair"
    /\ Apply("eq", "-", "-", Eq(input.a, input.b))

\* a.partial_cmp(&b)
apply_partial_cmp ==
    /\ input.kind = "pair"
    /\ Apply("partial_cmp", "-", "-", PartialCmp(input.a, input.b))

\* text.parse::<LogLevel>() / text.parse::<LogLevelFilter>(), in either build
apply_from_str ==
    /\ input.kind = "text"
    /\ \E ty \in {"LogLevel", "LogLevelFilter"} : \E build \in Builds :
          Apply("from_str", ty, build, FromStr(ty, build, input.text))

\* Display::fmt with the formatter of the input
apply_fmt ==
    /\ input.kind = "value"
    /\ Apply("fmt", input.a[1], "-", Display(input.a, input.fmt))

\* a.to_string().parse(), to the type of a
apply_parse_shown ==
    /\ input.kind = "value"
    /\ \E build \in Builds :
          Apply("parse_shown", input.a[1], build,
                FromStr(input.a[1], build, to_string(input.a)))

\* LogLevel::to_log_level_filter
apply_to_log_level_filter ==
    /\ input.kind = "value"
    /\ input.a[1] = "LogLevel"
    /\ Apply("to_log_level_filter", "LogLevel", "-", to_log_level_filter(input.a[2]))

\* LogLevelFilter::to_log_level
apply_to_log_level ==
    /\ input.kind = "value"
    /\ input.a[1] = "LogLevelFilter"
    /\ Apply("to_log_level", "LogLevelFilter", "-", to_log_level(input.a[2]))

\* l.to_log_level_filter().to_log_level()
apply_there_and_back ==
    /\ input.kind = "value"
    /\ input.a[1] = "LogLevel"
    /\ LET f == to_log_level_filter(input.a[2])
       IN  Apply("there_and_back", "LogLevel", "-",
                 IF f = Panic THEN PanicResult ELSE to_log_level(f))

NextLevel ==
    \/ apply_eq
    \/ apply_partial_cmp
    \/ apply_from_str
    \/ apply_fmt
    \/ apply_parse_shown
    \/ apply_to_log_level_filter
    \/ apply_to_log_level
    \/ apply_there_and_back

SpecLevel == InitLevel /\ [][NextLevel]_vars

\* ---- the freestanding build ---------------------------------------------------
\* No REFCOUNT, no shutdown: set_logger stores the pointer make_logger
\* returned and returns Ok; logger() is Some(LoggerGuard(LOGGER.load())).
FreeFirstPc(o, l) ==
    IF o = "set_logger" THEN "cas"
    ELSE IF o = "log" /\ ~SiteEnabled(l, max_log_level) THEN "idle"
    ELSE "fload"

free_begin(t) ==
    /\ pc[t] = "idle"
    /\ calls < MaxCalls
    /\ \E o \in Ops : \E l \in LevelsOf(o) :
         LET first == FreeFirstPc(o, l)
         IN  /\ pc' = [pc EXCEPT ![t] = first]
             /\ IF first = "idle"
                THEN /\ ret' = [ret EXCEPT ![t] = "skipped"]
                     /\ UNCHANGED <<op, level, seen, afterOk>>
                ELSE /\ ret' = [ret EXCEPT ![t] = "none"]
                     /\ op' = [op EXCEPT ![t] = o]
                     /\ level' = [level EXCEPT ![t] = l]
                     /\ seen' = [seen EXCEPT ![t] =
                                    IF o = "log" THEN MAX_LOG_LEVEL_FILTER ELSE Off]
                     /\ afterOk' = [afterOk EXCEPT ![t] = okCount > 0]
    /\ calls' = calls + 1
    /\ guard' = [guard EXCEPT ![t] = 0]
    /\ UNCHANGED <<shared, exitState, heap, token, winner, okCount, errCount,
                   made, phase, activations, releases, zeroSeen, ub, beforeSwap,
                   counted, lateErr, filter, pure, delivery>>

\* LOGGER.store(logger); return Ok(())
free_set_logger_store(t) ==
    /\ pc[t] = "store"
    /\ LOGGER' = BoxAddr(t)
    /\ pc' = [pc EXCEPT ![t] = "idle"]
    /\ op' = [op EXCEPT ![t] = "none"]
    /\ ret' = [ret EXCEPT ![t] = "Ok"]
    /\ okCount' = okCount + 1
    /\ phase' = "Active"
    /\ activations' = activations + 1
    /\ afterOk' = [afterOk EXCEPT ![t] = FALSE]
    /\ UNCHANGED <<REFCOUNT, MAX_LOG_LEVEL_FILTER, guard, calls, exitState, heap,
                   token, winner, errCount, made, releases, zeroSeen, ub,
                   beforeSwap, counted, lateErr, args, filter, pure, delivery>>

\* Some(LoggerGuard(LOGGER.load())): whatever the slot holds
free_logger(t) ==
    /\ pc[t] = "fload"
    /\ guard' = [guard EXCEPT ![t] = LOGGER]
    /\ pc' = [pc EXCEPT ![t] = "some"]
    /\ UNCHANGED <<shared, op, ret, calls, exitState, heap, token, history, ub,
                   args, filter, pure, delivery>>

\* the recorder's method returns; LoggerGuard has no Drop in this build.  After
\* a dereference of a sentinel the result of __enabled is any bool.
free_return(t) ==
    /\ pc[t] = "running"
    /\ pc' = [pc EXCEPT ![t] = "idle"]
    /\ \E b \in {"true", "false"} :
         ret' = [ret EXCEPT ![t] = IF op[t] = "enabled" THEN b ELSE "unit"]
    /\ op' = [op EXCEPT ![t] = "none"]
    /\ level' = [level EXCEPT ![t] = NoLevel]
    /\ seen' = [seen EXCEPT ![t] = Off]
    /\ guard' = [guard EXCEPT ![t] = 0]
    /\ afterOk' = [afterOk EXCEPT ![t] = FALSE]
    /\ UNCHANGED <<shared, calls, exitState, heap, token, winner, okCount,
                   errCount, made, phase, activations, releases, zeroSeen, ub,
                   beforeSwap, counted, lateErr, filter, pure, delivery>>

NextFree ==
    \/ \E t \in Threads : free_begin(t)
    \/ \E t \in Threads : set_logger_cas(t)
    \/ \E t \in Threads : set_logger_make(t)
    \/ \E t \in Threads : free_set_logger_store(t)
    \/ token_set
    \/ \E t \in Threads : free_logger(t)
    \/ \E t \in Threads : recorder_call(t)
    \/ \E t \in Threads : free_return(t)

SpecFree == Init /\ [][NextFree]_vars

\* ---- what __enabled and __log hand to the recorder -----------------------------
\* LogMetadata { level: level, target: target }
LogMetadata(l, a) == [level |-> l, target |-> a.target]

\* LogRecord { metadata: LogMetadata { .. }, location: loc, args: args }
LogRecord_NoLocation(l, a) == [metadata |-> LogMetadata(l, a), location |-> "-", args |-> a.message]
LogRecord(l, a) == [metadata |-> LogMetadata(l, a), location |-> a.location, args |-> a.message]

\* thread t calls __enabled(l, target) or __log(l, target, loc, args)
call_with(t) ==
    /\ pc[t] = "idle"
    /\ calls < MaxCalls
    /\ \E o \in {"enabled", "log"} : \E l \in LevelInputs : \E a \in ArgumentsAt(l) :
          /\ op' = [op EXCEPT ![t] = o]
          /\ level' = [level EXCEPT ![t] = l]
          /\ passed' = [passed EXCEPT ![t] =
                           IF o = "log" THEN a ELSE [NoArguments EXCEPT !.target = a.target]]
    /\ invoked' = [invoked EXCEPT ![t] = <<>>]
    /\ pc' = [pc EXCEPT ![t] = "inc"]
    /\ ret' = [ret EXCEPT ![t] = "none"]
    /\ calls' = calls + 1
    /\ guard' = [guard EXCEPT ![t] = 0]
    /\ afterOk' = [afterOk EXCEPT ![t] = okCount > 0]
    /\ beforeSwap' = [beforeSwap EXCEPT ![t] = ~Swapped]
    /\ UNCHANGED <<shared, seen, exitState, heap, token, winner, okCount, errCount,
                   made, phase, activations, releases, zeroSeen, ub, counted, lateErr,
                   filter, pure>>

\* __enabled, Some(logger): logger.enabled(&LogMetadata { .. }); the recorder
\* answers true or false
recorder_enabled(t) ==
    /\ pc[t] = "some"
    /\ op[t] = "enabled"
    /\ pc' = [pc EXCEPT ![t] = "running"]
    /\ ub' = (ub \/ ~Live(guard[t]))
    /\ \E b \in {"true", "false"} :
          invoked' = [invoked EXCEPT ![t] =
                         Append(@, [method |-> "enabled",
                                    given |-> LogMetadata(level[t], passed[t]),
                                    answer |-> b])]
    /\ UNCHANGED <<shared, op, guard, ret, calls, exitState, heap, token,
                   history, args, filter, pure, passed>>

\* __log, Some(logger): logger.log(&record)
recorder_log(t) ==
    /\ pc[t] = "some"
    /\ op[t] = "log"
    /\ pc' = [pc EXCEPT ![t] = "running"]
    /\ ub' = (ub \/ ~Live(guard[t]))
    /\ invoked' = [invoked EXCEPT ![t] =
                      Append(@, [method |-> "log",
                                 given |-> LogRecord(level[t], passed[t]),
                                 answer |-> "unit"])]
    /\ UNCHANGED <<shared, op, guard, ret, calls, exitState, heap, token,
                   history, args, filter, pure, passed>>

\* the method returns, __enabled with what the recorder answered; the guard is
\* dropped: REFCOUNT.fetch_sub(1)
call_return(t) ==
    /\ pc[t] = "running"
    /\ REFCOUNT' = FetchSub(REFCOUNT)
    /\ pc' = [pc EXCEPT ![t] = "idle"]
    /\ ret' = [ret EXCEPT ![t] = invoked[t][Len(invoked[t])].answer]
    /\ op' = [op EXCEPT ![t] = "none"]
    /\ level' = [level EXCEPT ![t] = NoLevel]
    /\ seen' = [seen EXCEPT ![t] = Off]
    /\ counted' = [counted EXCEPT ![t] = IF @ = "in" THEN "out" ELSE @]
    /\ guard' = [guard EXCEPT ![t] = 0]
    /\ afterOk' = [afterOk EXCEPT ![t] = FALSE]
    /\ beforeSwap' = [beforeSwap EXCEPT ![t] = FALSE]
    /\ UNCHANGED <<LOGGER, MAX_LOG_LEVEL_FILTER, calls, exitState, heap,
                   token, winner, okCount, errCount, made, phase,
                   activations, releases, zeroSeen, ub, lateErr, filter, pure, delivery>>

NextCall ==
    \/ \E t \in Threads : install_begin(t)
    \/ \E t \in Threads : set_logger_cas(t)
    \/ \E t \in Threads : set_logger_make(t)
    \/ \E t \in Threads : set_logger_store(t)
    \/ \E t \in Threads : set_logger_atexit(t)
    \/ \E t \in Threads : call_with(t)
    \/ \E t \in Threads : logger_fetch_add(t)
    \/ \E t \in Threads : logger_load(t)
    \/ \E t \in Threads : logger_none(t)
    \/ \E t \in Threads : recorder_enabled(t)
    \/ \E t \in Threads : recorder_log(t)
    \/ \E t \in Threads : call_return(t)

SpecCall == Init /\ [][NextCall]_vars

\* ---- the drain under fair scheduling ----------------------------------------
\* After shutdown's swap the threads may go on calling __enabled / __log for
\* ever: these calls are not taken from the budget MaxCalls.
call_again(t) ==
    /\ pc[t] = "idle"
    /\ Swapped
    /\ \E o \in {"enabled", "log"} : \E l \in LevelsOf(o) :
        /\ FirstPc(o, l) = "inc"
        /\ op' = [op EXCEPT ![t] = o]
        /\ level' = [level EXCEPT ![t] = l]
        /\ seen' = [seen EXCEPT ![t] = IF o = "log" THEN MAX_LOG_LEVEL_FILTER ELSE Off]
    /\ pc' = [pc EXCEPT ![t] = "inc"]
    /\ ret' = [ret EXCEPT ![t] = "none"]
    /\ guard' = [guard EXCEPT ![t] = 0]
    /\ afterOk' = [afterOk EXCEPT ![t] = okCount > 0]
    /\ beforeSwap' = [beforeSwap EXCEPT ![t] = FALSE]
    /\ UNCHANGED <<shared, calls, exitState, heap, token, winner, okCount, errCount,
                   made, phase, activations, releases, zeroSeen, ub, counted, lateErr,
                   filter, pure, delivery>>

\* the steps of a call that thread t is in
ThreadStep(t) ==
    \/ set_logger_cas(t)
    \/ set_logger_make(t)
    \/ set_logger_store(t)
    \/ set_logger_atexit(t)
    \/ logger_fetch_add(t)
    \/ logger_load(t)
    \/ logger_none(t)
    \/ recorder_call(t)
    \/ guard_drop(t)

NextLive ==
    \/ Next
    \/ \E t \in Threads : call_again(t)

\* Every thread that is in a call goes on with it; the exiting thread goes on
\* with shutdown, and leaves the loop if it finds REFCOUNT = 0 again and again.
Fairness ==
    /\ \A t \in Threads : WF_vars(ThreadStep(t))
    /\ WF_vars(shutdown_swap)
    /\ SF_vars(shutdown_drained)
    /\ WF_vars(shutdown_release)

SpecLive == Init /\ [][NextLive]_vars /\ Fairness

\* the same fairness with the calls bounded by MaxCalls
SpecBounded == Spec /\ Fairness

\* ---- state functions used by the properties ---------------------------------
InCall(t) == pc[t] # "idle"
InSetLogger(t) == pc[t] \in {"cas", "make", "store", "atexit"}
InLogCall(t) == pc[t] \in {"inc", "load", "none", "some", "running"}
HoldsCount(t) == pc[t] \in {"load", "none", "some", "running"}
HoldsGuard(t) == pc[t] \in {"some", "running"}
Made == {t \in Threads : made[t] > 0}

\* C1: install-once.  At most one set_logger call returns Ok; once every
\* started call has returned, exactly one has returned Ok and all the others
\* Err; a call that started after an Ok return never gets past its
\* compare_and_swap, so it returns Err too.
C1_InstallOnce ==
    /\ okCount <= 1
    /\ ((okCount + errCount >= 1 /\ \A t \in Threads : ~InSetLogger(t)) => okCount = 1)
    /\ \A t \in Threads : (afterOk[t] /\ InSetLogger(t)) => pc[t] = "cas"
    /\ \A t \in Threads : ret[t] = "Ok" => (okCount = 1 /\ winner = t)

C1_Witness ==
    /\ okCount = 1
    /\ errCount >= 1
    /\ \E t, u \in Threads : ret[t] = "Ok" /\ ret[u] = "Err"

\* C2: the recorder is never entered, and is not running, once shutdown has
\* released it: no undefined dereference ever happens, every guard held is the
\* live Box, and after the release no thread holds a guard.
C2_NoUseAfterRelease ==
    /\ ~ub
    /\ \A t \in Threads : HoldsGuard(t) => Live(guard[t])
    /\ releases > 0 => \A t \in Threads : ~HoldsGuard(t)

C2_Witness ==
    /\ releases = 1
    /\ \E t \in Threads : counted[t] = "out" /\ ret[t] \in {"true", "unit"}
    /\ \E t \in Threads : InLogCall(t)

\* C3 as stated: when the recorder is released, every __enabled/__log call
\* that began before shutdown's swap has returned.
C3_ReleaseAfterEveryEarlierCall ==
    releases > 0 => \A t \in Threads : ~(InLogCall(t) /\ beforeSwap[t])

\* C3 amended: when the recorder is released, every call that had incremented
\* REFCOUNT before shutdown's swap has decremented it again (its last step).
C3_ReleaseAfterCountedCalls ==
    /\ releases > 0 => \A t \in Threads : counted[t] # "in"
    /\ \A t \in Threads : counted[t] = "in" => (HoldsCount(t) /\ beforeSwap[t])

C3_Witness ==
    /\ releases = 1
    /\ \E t \in Threads : counted[t] = "out"
    /\ \E t \in Threads : InLogCall(t) /\ beforeSwap[t]

\* C4: after shutdown's swap the slot holds the sentinel for good, every read
\* of the slot by logger() leads to None, and the None path returns false from
\* __enabled / nothing from __log without entering the recorder.
C4_NoGuardAfterSwap ==
    /\ [](Swapped => LOGGER = INITIALIZING)
    /\ [][\A t \in Threads :
            /\ (Swapped /\ pc[t] = "load" /\ pc'[t] # "load") => pc'[t] = "none"
            /\ (Swapped /\ pc[t] = "none" /\ pc'[t] # "none") =>
                  /\ pc'[t] = "idle"
                  /\ ret'[t] = (IF op[t] = "enabled" THEN "false" ELSE "unit")
                  /\ ub' = ub
            /\ Swapped => Swapped']_vars

C4_Witness ==
    /\ Swapped
    /\ \E t \in Threads : pc[t] = "none" /\ ~beforeSwap[t] /\ guard[t] = INITIALIZING

\* C5: while the slot is Uninitialized or Initializing (no handle stored yet)
\* a read of the slot by logger() leads to None and the call returns false /
\* nothing; a thread holds a guard only on the handle that was stored.
C5_NoRecorderBeforeStore ==
    /\ [](\A t \in Threads : HoldsGuard(t) =>
            (activations >= 1 /\ winner # 0 /\ guard[t] = BoxAddr(winner)))
    /\ [][\A t \in Threads :
            /\ (activations = 0 /\ pc[t] = "load" /\ pc'[t] # "load") => pc'[t] = "none"
            /\ (activations = 0 /\ pc[t] = "none" /\ pc'[t] # "none") =>
                  /\ ret'[t] = (IF op[t] = "enabled" THEN "false" ELSE "unit")
                  /\ ub' = ub]_vars

C5_Witness ==
    /\ phase = "Initializing"
    /\ activations = 0
    /\ \E t \in Threads : pc[t] = "none" /\ op[t] = "enabled" /\ guard[t] = INITIALIZING

\* C6: REFCOUNT is the number of calls that have incremented it and not yet
\* decremented it, so it is zero whenever no __enabled/__log call is in
\* progress and it never wraps below zero.
C6_RefcountBalance ==
    /\ REFCOUNT = Cardinality({t \in Threads : HoldsCount(t)})
    /\ (\A t \in Threads : ~InLogCall(t)) => REFCOUNT = 0

C6_Witness ==
    /\ REFCOUNT = 0
    /\ releases = 1
    /\ \A t \in Threads : pc[t] = "idle"
    /\ \E t \in Threads : ret[t] = "unit"
    /\ \E t \in Threads : ret[t] = "false"

\* C7: a set_logger call whose compare_and_swap finds the slot not
\* Uninitialized returns Err and changes nothing else: not the slot, not
\* REFCOUNT, not the maximum level filter, no factory call, no atexit hook.
C7_FailedInstallNoEffect ==
    [][\A t \in Threads :
         (pc[t] = "cas" /\ pc'[t] # "cas" /\ LOGGER # UNINITIALIZED) =>
            /\ pc'[t] = "idle"
            /\ ret'[t] = "Err"
            /\ LOGGER' = LOGGER
            /\ REFCOUNT' = REFCOUNT
            /\ MAX_LOG_LEVEL_FILTER' = MAX_LOG_LEVEL_FILTER
            /\ made' = made
            /\ token' = token
            /\ heap' = heap
            /\ atexit' = atexit]_vars

C7_Witness ==
    /\ phase = "Active"
    /\ MAX_LOG_LEVEL_FILTER # Off
    /\ \E t \in Threads : ret[t] = "Err" /\ t # winner /\ pc[winner] = "atexit"

\* C8: at most one factory is ever invoked, it is the factory of the thread
\* that won the compare_and_swap, it is invoked once, and that happens while
\* the slot is Initializing, before the handle is stored.
C8_OneFactory ==
    /\ Cardinality(Made) <= 1
    /\ \A t \in Threads : made[t] <= 1
    /\ \A t \in Made : t = winner
    /\ \A t \in Threads : pc[t] \in {"make", "store"} =>
          (t = winner /\ LOGGER = INITIALIZING /\ activations = 0)
    /\ \A t \in Threads : pc[t] = "make" => made[t] = 0
    /\ \A t \in Threads : pc[t] \in {"store", "atexit"} => made[t] = 1
    /\ activations >= 1 => (winner # 0 /\ made[winner] = 1)

C8_Witness ==
    /\ \E t \in Threads : made[t] = 1 /\ ret[t] = "Ok"
    /\ errCount >= 1

\* C9: the slot only moves Uninitialized -> Initializing -> Active -> Draining:
\* a handle is stored at most once, the slot never returns to Uninitialized,
\* after shutdown's swap it never changes, no compare_and_swap of set_logger
\* succeeds and no guard is granted.
C9_LifecycleForward ==
    /\ [](activations <= 1)
    /\ [](phase = "Uninitialized" <=> LOGGER = UNINITIALIZED)
    /\ [](phase = "Active" <=> LOGGER \in Boxes)
    /\ [][/\ LOGGER' # LOGGER =>
               \/ LOGGER = UNINITIALIZED /\ LOGGER' = INITIALIZING
               \/ LOGGER = INITIALIZING /\ ~Swapped /\ LOGGER' \in Boxes
               \/ LOGGER \in Boxes /\ LOGGER' = INITIALIZING /\ Swapped'
          /\ Swapped => (Swapped' /\ LOGGER' = LOGGER)
          /\ \A t \in Threads :
               Swapped => /\ (pc[t] = "cas" => pc'[t] \in {"cas", "idle"})
                          /\ (pc[t] = "load" => pc'[t] \in {"load", "none"})]_vars

C9_Witness ==
    /\ Swapped
    /\ lateErr
    /\ \E t \in Threads : pc[t] = "none" /\ ~beforeSwap[t]

\* C10: the recorder is released at most once, only by shutdown, only after
\* shutdown left its loop on a zero REFCOUNT read after its swap; a shutdown
\* that has finished has released it once.
C10_ReleasedOnce ==
    /\ [](releases <= 1)
    /\ [](releases = 1 => (Swapped /\ zeroSeen /\ ran = 1))
    /\ [](ran >= 1 => releases = 1)
    /\ [](\A h \in Boxes : heap[h] = "freed" => (releases = 1 /\ h = sdLogger))
    /\ [](sd = "free" => (zeroSeen /\ Swapped))
    /\ [][(releases' # releases
             \/ (\E h \in Boxes : heap'[h] = "freed" /\ heap[h] # "freed"))
             => (sd = "free" /\ sd' = "idle" /\ Live(sdLogger))]_vars

C10_Witness ==
    /\ releases = 1
    /\ ran = 1
    /\ zeroSeen
    /\ \E h \in Boxes : heap[h] = "freed"
    /\ \E t \in Threads : counted[t] = "out"
\* C11: under fair scheduling, once every call that was counted at shutdown's
\* swap has given its count back, shutdown eventually releases the recorder,
\* also when the threads keep calling __enabled / __log after the swap.
C11_DrainCompletes ==
    (sd = "spin" /\ \A t \in Threads : counted[t] # "in") ~> (releases >= 1)
\* C12: a log event that occurs before the winning set_logger call has
\* returned is ignored: the recorder is entered only after that return.
C12_IgnoredUntilInstallReturns ==
    \A t \in Threads : pc[t] = "running" => okCount >= 1
C14_FilterHoldsLastSet ==
    /\ MAX_LOG_LEVEL_FILTER \in 0..5
    /\ lastSet = "none" => MAX_LOG_LEVEL_FILTER = 0
    /\ got # "none" => got = (IF lastSet = "none" THEN "Off" ELSE lastSet)

C14_Witness ==
    /\ lastSet = "Debug"
    /\ got = "Debug"
    /\ MAX_LOG_LEVEL_FILTER = 4

\* C15: guard acquisition never blocks.  Whatever LOGGER holds and whatever the
\* other threads and shutdown are doing, the next step of a call that is in
\* logger() can be taken at once, and the steps of a call that obtains no guard
\* are exactly three: the fetch_add, the load that finds a sentinel, and the
\* fetch_sub with which the call returns false or ().
C15_AcquisitionNeverBlocks ==
    /\ [](\A t \in Threads :
            /\ pc[t] = "inc" => ENABLED logger_fetch_add(t)
            /\ pc[t] = "load" => ENABLED logger_load(t)
            /\ pc[t] = "none" => ENABLED logger_none(t))
    /\ [][\A t \in Threads :
            /\ (pc[t] = "inc" /\ pc'[t] # "inc") => pc'[t] = "load"
            /\ (pc[t] = "load" /\ pc'[t] # "load") =>
                  pc'[t] = (IF IsUnavailable(LOGGER) THEN "none" ELSE "some")
            /\ (pc[t] = "none" /\ pc'[t] # "none") =>
                  (pc'[t] = "idle" /\ ret'[t] \in {"false", "unit"})]_vars

C15_Witness ==
    /\ sd = "spin"
    /\ \E t \in Threads : pc[t] = "running"
    /\ \E t \in Threads : pc[t] = "none" /\ guard[t] = INITIALIZING

\* the ordinals the two scales share
Ordinals == [Off |-> 0, Error |-> 1, Warn |-> 2, Info |-> 3, Debug |-> 4, Trace |-> 5]

\* C16: for every pair of values x, y from either scale, in either order of
\* the types, x == y is ord(x) = ord(y), and x.partial_cmp(y) is the comparison
\* of ord(x) with ord(y), so x < y iff ord(x) < ord(y); LogLevelFilter::Off is
\* below every LogLevel.
C16_ComparisonIsOrdinal ==
    LET ox == Ordinals[input.a[2]]
        oy == Ordinals[input.b[2]]
    IN  /\ applied[1] = "eq" => output = (ox = oy)
        /\ applied[1] = "partial_cmp" =>
              /\ output = Some(IF ox < oy THEN "Less" ELSE IF ox = oy THEN "Equal" ELSE "Greater")
              /\ Lt(input.a, input.b) <=> ox < oy
              /\ Lt(input.b, input.a) <=> oy < ox
              /\ (input.a = <<"LogLevelFilter", "Off">> /\ input.b[1] = "LogLevel")
                    => output = Some("Less")

C16_Witness ==
    /\ applied[1] = "partial_cmp"
    /\ input.a = <<"LogLevelFilter", "Warn">>
    /\ input.b = <<"LogLevel", "Trace">>
    /\ output = Some("Less")

\* the six names in lower and in upper case, each with the value it names
LowerNames ==
    { << <<"o", "f", "f">>, "Off" >>, << <<"e", "r", "r", "o", "r">>, "Error" >>,
      << <<"w", "a", "r", "n">>, "Warn" >>, << <<"i", "n", "f", "o">>, "Info" >>,
      << <<"d", "e", "b", "u", "g">>, "Debug" >>, << <<"t", "r", "a", "c", "e">>, "Trace" >> }
UpperNames ==
    { << <<"O", "F", "F">>, "Off" >>, << <<"E", "R", "R", "O", "R">>, "Error" >>,
      << <<"W", "A", "R", "N">>, "Warn" >>, << <<"I", "N", "F", "O">>, "Info" >>,
      << <<"D", "E", "B", "U", "G">>, "Debug" >>, << <<"T", "R", "A", "C", "E">>, "Trace" >> }

\* C17 as stated: in the normal build from_str gives the named value for the
\* upper-case and for the lower-case spelling of a name, except that "off" is
\* no LogLevel, and Err for any other text.
C17_OnlyUpperAndLower ==
    (applied[1] = "from_str" /\ applied[3] = "normal") =>
        LET named == {e \in LowerNames \cup UpperNames : e[1] = input.text}
        IN  IF named = {} THEN output = Err
            ELSE \A e \in named :
                   output = (IF applied[2] = "LogLevel" /\ e[2] = "Off" THEN Err ELSE Ok(e[2]))

\* C17 amended: in the normal build from_str gives the named value for every
\* spelling of a name in upper, lower or mixed ASCII case, except that "off"
\* is no LogLevel, and Err for a text that is no such spelling.
C17_AnyCase ==
    (applied[1] = "from_str" /\ applied[3] = "normal") =>
        LET named == {e \in UpperNames : input.text \in Spellings(e[1])}
        IN  IF named = {} THEN output = Err
            ELSE \A e \in named :
                   output = (IF applied[2] = "LogLevel" /\ e[2] = "Off" THEN Err ELSE Ok(e[2]))

C17_Witness ==
    /\ applied = <<"from_str", "LogLevel", "normal">>
    /\ input.text = <<"I", "n", "f", "o">>
    /\ output = Ok("Info")

\* the upper-case name of each value
ShownNames ==
    [Off |-> <<"O", "F", "F">>, Error |-> <<"E", "R", "R", "O", "R">>,
     Warn |-> <<"W", "A", "R", "N">>, Info |-> <<"I", "N", "F", "O">>,
     Debug |-> <<"D", "E", "B", "U", "G">>, Trace |-> <<"T", "R", "A", "C", "E">>]

\* C18: Display with "{}" (to_string) writes the upper-case name of every
\* LogLevel and LogLevelFilter, and from_str of that text gives the value back,
\* in the normal and in the freestanding build.
C18_ShownNameParsesBack ==
    /\ (applied[1] = "fmt" /\ input.fmt = DefaultFormat) => output = ShownNames[input.a[2]]
    /\ applied[1] = "parse_shown" => output = Ok(input.a[2])

C18_Witness ==
    /\ applied = <<"parse_shown", "LogLevel", "freestanding">>
    /\ input.a = <<"LogLevel", "Warn">>
    /\ output = Ok("Warn")

\* C19: to_log_level_filter gives the filter of the same ordinal, and
\* to_log_level of it gives Some of the level again; to_log_level of a filter
\* is None for Off and for no other, and else Some of the level of the same
\* ordinal.
C19_ConversionsKeepOrdinal ==
    /\ applied[1] = "to_log_level_filter" =>
          /\ output \in Filters
          /\ Ordinals[output] = Ordinals[input.a[2]]
    /\ applied[1] = "there_and_back" => output = Some(input.a[2])
    /\ applied[1] = "to_log_level" =>
          /\ output = None <=> input.a[2] = "Off"
          /\ output # None =>
                /\ output[1] = "Some"
                /\ output[2] \in LogLevels
                /\ Ordinals[output[2]] = Ordinals[input.a[2]]

C19_Witness ==
    /\ applied[1] = "to_log_level"
    /\ input.a = <<"LogLevelFilter", "Off">>
    /\ output = None

\* C20: logger() increments REFCOUNT before it loads LOGGER, and when the load
\* finds a sentinel it decrements REFCOUNT again as it returns None.  So every
\* thread that has loaded a handle and not yet dropped its guard is counted:
\* REFCOUNT is at least the number of such threads.
C20_CountedBeforeRead ==
    /\ [](REFCOUNT >= Cardinality({t \in Threads : HoldsGuard(t)}))
    /\ [][\A t \in Threads :
            /\ guard'[t] \notin {guard[t], 0} =>
                  (pc[t] = "load" /\ guard'[t] = LOGGER /\ REFCOUNT' = REFCOUNT /\ REFCOUNT >= 1)
            /\ (pc[t] = "inc" /\ pc'[t] # "inc") =>
                  (pc'[t] = "load" /\ REFCOUNT' = REFCOUNT + 1 /\ guard'[t] = 0)
            /\ (pc[t] = "none" /\ pc'[t] # "none") =>
                  (pc'[t] = "idle" /\ REFCOUNT' = REFCOUNT - 1)]_vars

C20_Witness ==
    /\ REFCOUNT = Cardinality(Threads)
    /\ \A t \in Threads : HoldsGuard(t) /\ Live(guard[t])

\* C21: in the freestanding build, while LOGGER holds UNINITIALIZED or
\* INITIALIZING, logger() yields no guard: no __enabled or __log call that
\* loaded a sentinel goes on to the recorder (so __enabled returns false and
\* __log does nothing), and no sentinel is dereferenced.
C21_FreestandingNoRecorder ==
    /\ ~ub
    /\ \A t \in Threads : pc[t] \in {"some", "running"} => ~IsUnavailable(guard[t])

\* C22: MAX_LOG_LEVEL_FILTER changes only in a MaxLogLevelFilter::set by the
\* holder of a token, a step in which no call of set_logger, __enabled or
\* __log and no step of shutdown takes place; a token exists only once the
\* winning set_logger has called the factory, so the filter is Off while
\* LOGGER is UNINITIALIZED.  LOGGER changes only in set_logger's
\* compare_and_swap and store and in shutdown's swap, never in a step of an
\* __enabled or __log call.
C22_FilterFrame ==
    /\ [](LOGGER = UNINITIALIZED => (token = 0 /\ MAX_LOG_LEVEL_FILTER = Off))
    /\ [][/\ MAX_LOG_LEVEL_FILTER' # MAX_LOG_LEVEL_FILTER =>
               /\ token > 0
               /\ winner # 0
               /\ MAX_LOG_LEVEL_FILTER' = LogLevelFilter_as_usize(lastSet')
               /\ UNCHANGED <<LOGGER, REFCOUNT, pc, op, guard, ret, calls, sd, heap>>
          /\ token' # token =>
               \E t \in Threads : t = winner /\ pc[t] = "make" /\ pc'[t] = "store"
          /\ LOGGER' # LOGGER =>
               \/ \E t \in Threads : pc[t] \in {"cas", "store"} /\ pc'[t] # pc[t]
               \/ sd = "idle" /\ sd' = "spin"
          /\ \A t \in Threads :
               ((InLogCall(t) \/ op'[t] \in {"enabled", "log"}) /\ pc'[t] # pc[t]) =>
                   UNCHANGED <<LOGGER, MAX_LOG_LEVEL_FILTER>>]_vars

C22_Witness ==
    /\ MAX_LOG_LEVEL_FILTER = Info
    /\ errCount = 1
    /\ releases = 1
    /\ \E t \in Threads : ret[t] = "unit"

\* C23: a log call that obtains a guard invokes the recorder's log method
\* exactly once, with a record whose level, target, location and message are
\* the call's arguments unmodified, and does not invoke enabled; an enabled call
\* that obtains a guard invokes enabled exactly once with metadata
\* {level, target} and returns its result.
C23_Delivery ==
    /\ [](\A t \in Threads :
            /\ pc[t] \in {"inc", "load", "some"} => invoked[t] = <<>>
            /\ (pc[t] = "running" /\ op[t] = "log") =>
                  /\ Len(invoked[t]) = 1
                  /\ invoked[t][1].method = "log"
                  /\ invoked[t][1].given =
                        [metadata |-> [level |-> level[t], target |-> passed[t].target],
                         location |-> passed[t].location,
                         args |-> passed[t].message]
            /\ (pc[t] = "running" /\ op[t] = "enabled") =>
                  /\ Len(invoked[t]) = 1
                  /\ invoked[t][1].method = "enabled"
                  /\ invoked[t][1].given = [level |-> level[t], target |-> passed[t].target])
    /\ [][\A t \in Threads :
            (pc[t] = "running" /\ pc'[t] = "idle") =>
                /\ invoked'[t] = invoked[t]
                /\ op[t] = "enabled" => ret'[t] = invoked[t][1].answer
                /\ op[t] = "log" => ret'[t] = "unit"]_vars

C23_Witness ==
    \E t, u \in Threads :
        /\ pc[t] = "idle"
        /\ Len(invoked[t]) = 1
        /\ invoked[t][1].method = "log"
        /\ invoked[t][1].given.location = "net.rs:7"
        /\ invoked[t][1].given.metadata.level = "Trace"
        /\ ret[t] = "unit"
        /\ pc[u] = "running"
        /\ op[u] = "enabled"
        /\ invoked[u][1].answer = "true"
        /\ ~ub

\* C24: in the freestanding build from_str is exact and case-sensitive: the six
\* upper-case names give the named LogLevelFilter, the five from ERROR to TRACE
\* the named LogLevel, "OFF" is no LogLevel, and every lower-case or mixed-case
\* spelling and every other text gives Err.
C24_StrictParse ==
    (applied[1] = "from_str" /\ applied[3] = "freestanding") =>
        LET named == {e \in UpperNames : e[1] = input.text}
        IN  /\ named = {} => output = Err
            /\ \A e \in named :
                 output = (IF applied[2] = "LogLevel" /\ e[2] = "Off" THEN Err ELSE Ok(e[2]))
            /\ (\E e \in UpperNames : input.text \in Spellings(e[1]) \ {e[1]}) => output = Err
            /\ input.text \in OtherTexts => output = Err

C24_Witness ==
    /\ applied = <<"from_str", "LogLevelFilter", "freestanding">>
    /\ input.text = <<"w", "a", "r", "n">>
    /\ output = Err

\* C25: shutdown is registered at most once, only by the set_logger call that
\* won the compare_and_swap and only after it stored the handle; so shutdown's
\* swap finds the stored handle of a live recorder in LOGGER, never
\* UNINITIALIZED or INITIALIZING, and what shutdown releases is that handle,
\* never a sentinel.
C25_ShutdownFindsHandle ==
    /\ [](atexit <= 1)
    /\ [](atexit = 1 => (activations = 1 /\ winner # 0 /\ okCount = 1))
    /\ [](sd # "idle" => sdLogger \notin {UNINITIALIZED, INITIALIZING})
    /\ [][/\ atexit' # atexit =>
               /\ winner # 0
               /\ pc[winner] = "atexit"
               /\ pc'[winner] = "idle"
               /\ LOGGER = BoxAddr(winner)
               /\ Live(LOGGER)
          /\ (sd = "idle" /\ sd' = "spin") =>
               /\ phase = "Active"
               /\ LOGGER = BoxAddr(winner)
               /\ Live(LOGGER)
               /\ sdLogger' = LOGGER
          /\ (sd = "free" /\ sd' = "idle") =>
               /\ sdLogger = BoxAddr(winner)
               /\ heap[sdLogger] = "live"
               /\ heap'[sdLogger] = "freed"]_vars

C25_Witness ==
    /\ atexit = 1
    /\ ran = 1
    /\ sd = "idle"
    /\ sdLogger \in Boxes
    /\ heap[sdLogger] = "freed"
    /\ LOGGER = INITIALIZING
    /\ errCount >= 1

====
